---- MODULE Spec2Model ----
(***************************************************************************)
(* Model of the transfer engine of the DataFlow service:                   *)
(*   app/transfer.py  DataTransferService (transfer_data, get_status,      *)
(*                    get_all_transfers)                                   *)
(*   app/database.py  DatabaseManager (the adapter calls the engine makes) *)
(*   app/models.py    TransferConfig, TransferStatus                       *)
(*                                                                         *)
(* The service runs on an asyncio event loop.  A coroutine runs without    *)
(* interruption between two suspension points, so one action of the model  *)
(* is one such segment of transfer_data: the completion of the adapter     *)
(* call the coroutine is suspended in (with the call's effect on the       *)
(* store), followed by the code up to the next adapter call or lock        *)
(* acquisition.  Stores are shared with external writers, which are the    *)
(* SourceInsertRow and SourceDeleteRow actions.                            *)
(***************************************************************************)
EXTENDS Integers, Sequences, FiniteSets, TLC

\* ------------------------------------------------------------------ bounds
MaxRows == 3        \* rows the source table ever holds (initial + added)
MaxBatch == 2       \* largest batch_size a request carries

\* ------------------------------------------------------------- the universe
Procs == {1, 2}                          \* concurrent transfer_data calls
TransferIds == {"txn_a", "txn_b"}        \* values of uuid4().hex[:12]

engines == {"source", "destination"}     \* DatabaseManager.engines keys
SourceTables == {"users", "ghost"}
DestTables == {"users_copy"}
TableNames == SourceTables \cup DestTables

\* Optional[T]: None is the empty set, a value x is {x}.
None == {}
Some(x) == {x}
TheValue(o) == CHOOSE x \in o : TRUE

Min(a, b) == IF a < b THEN a ELSE b

\* A python value is <<kind, payload>>; a row (a dict) is a sequence of
\* <<column, value>> pairs in column order.
Row(n) ==
    << <<"id", <<"int", n>> >>,
       <<"name", IF n % 2 = 1 THEN <<"str", n>> ELSE <<"none", 0>> >>,
       <<"salary", <<"float", 75000 + n>> >> >>

AbsentTable == [exists |-> FALSE, cols |-> <<>>, rows |-> <<>>]

\* TransferConfig: the identifier pattern and batch_size >= 1 hold of every
\* config that reaches the engine (pydantic validates at construction).
\* The requests are the well-formed one with every batch size, and one for
\* each way a name can be wrong: a table the source store does not have, a
\* source store and a destination store the manager does not know.
Config(sdb, ddb, stable, batch) ==
    [source_db |-> sdb, destination_db |-> ddb, source_table |-> stable,
     destination_table |-> "users_copy", batch_size |-> batch]

Configs ==
    {Config("source", "destination", "users", b) : b \in 1..MaxBatch}
    \cup {Config("source", "destination", "ghost", 1),
          Config("nosuch", "destination", "users", 1),
          Config("source", "nosuch", "users", 1)}

\* datetime.now(): an opaque timestamp (nothing compares two of them)
Now == "now"

\* ------------------------------------------------------------------ state
VARIABLES
    db,         \* store name -> table name -> [exists, cols, rows]
    nextRow,    \* id of the next row an external writer adds to the source
    transfers,  \* DataTransferService.transfers: sequence of <<id, object>>
    lock,       \* Some(holder) of DataTransferService._transfer_lock, or None
    status,     \* the TransferStatus objects, by the call that created them
    config,     \* the config argument of each started call
    pc,         \* where each transfer_data call is
    frame,      \* the local variables of each call
    calls,      \* the adapter calls each transfer has issued, in order
    outcome,    \* how each call ended: what it returned or that it raised
    inserted,   \* rows each transfer's insert_batch calls committed, by call
    db0,        \* the stores as they were when the service started
    reader      \* the last get_status / get_all_transfers call and its result

vars == <<db, nextRow, transfers, lock, status, config, pc, frame, calls,
          outcome, inserted, db0, reader>>

\* ------------------------------------------------- app/models.py, messages
\* str(e) of an exception is a sequence of text pieces, so that "the message
\* names the table" is a property of the text that was formatted.
IoError == <<"disk I/O error">>
NoSuchTable(table_name) == <<"no such table: ", table_name>>
UnknownDatabase(db_name) ==
    <<"Database '", db_name, "' not found. Available databases: ",
      "source, destination">>
\* A message that leaves the database out.
SourceMissingTableOnly(cfg) ==
    <<"Source table '", cfg.source_table, "' does not exist.">>

SourceMissing(cfg) ==
    <<"Source table '", cfg.source_table, "' does not exist in database '",
      cfg.source_db, "'. ",
      "Please check the database and table names and ensure the table exists.">>
Mentions(msg, word) == \E i \in DOMAIN msg : msg[i] = word

\* A record created in the state "pending" that the field's description
\* lists.
NewStatusPending(id, cfg, now) ==
    [transfer_id |-> id,
     status |-> "pending",
     source_table |-> cfg.source_table,
     destination_table |-> cfg.destination_table,
     records_transferred |-> 0,
     total_records |-> 0,
     started_at |-> now,
     completed_at |-> None,
     error_message |-> None]

\* TransferStatus(...) as transfer_data constructs it.
NewStatus(id, cfg, now) ==
    [transfer_id |-> id,
     status |-> "running",
     source_table |-> cfg.source_table,
     destination_table |-> cfg.destination_table,
     records_transferred |-> 0,
     total_records |-> 0,
     started_at |-> now,
     completed_at |-> None,
     error_message |-> None]

\* status.total_records = total_records
SetTotal(s, n) == [s EXCEPT !.total_records = n]

\* A completion that stamps the time and leaves the state as it was.
MarkCompletedStaysRunning(s, now) == [s EXCEPT !.completed_at = Some(now)]

\* The completion left after its first assignment.
MarkCompletedStatusOnly(s, now) == [s EXCEPT !.status = "completed"]

\* status.status = "completed"; status.completed_at = datetime.now()
MarkCompleted(s, now) ==
    [s EXCEPT !.status = "completed", !.completed_at = Some(now)]

\* "=" written for "+=".
AddTransferredOverwrites(s, n) ==
    [s EXCEPT !.records_transferred = n]

\* status.records_transferred += records_inserted
AddTransferred(s, n) ==
    [s EXCEPT !.records_transferred = @ + n]

\* A handler that leaves completed_at unset.
MarkFailedNoTime(s, msg, now) ==
    [s EXCEPT !.status = "failed", !.error_message = Some(msg)]

\* A handler that does not record the message.
MarkFailedNoMessage(s, msg, now) ==
    [s EXCEPT !.status = "failed", !.completed_at = Some(now)]

\* the except handler's three assignments
MarkFailed(s, msg, now) ==
    [s EXCEPT !.status = "failed", !.error_message = Some(msg),
              !.completed_at = Some(now)]

\* A registration that is lost.
DictSetLost(d, k, v) == d

\* self.transfers[transfer_id] = status on a dict that keeps insertion order
DictSet(d, k, v) ==
    IF \E i \in DOMAIN d : d[i][1] = k
    THEN [i \in DOMAIN d |-> IF d[i][1] = k THEN <<k, v>> ELSE d[i]]
    ELSE Append(d, <<k, v>>)

\* self.transfers.get(transfer_id)
DictGet(d, k) ==
    IF \E i \in DOMAIN d : d[i][1] = k
    THEN Some(d[CHOOSE i \in DOMAIN d : d[i][1] = k][2])
    ELSE None

\* ------------------------------------------------------- app/database.py
\* The result of an awaited call: a value, or the message of what it raised.
Ok(v) == [ok |-> TRUE, val |-> v, err |-> <<>>]
Err(msg) == [ok |-> FALSE, val |-> 0, err |-> msg]
IoResults == {"ok", "error"}     \* whether the store's I/O goes through

get_engine(db_name) ==
    IF db_name \notin engines THEN Err(UnknownDatabase(db_name)) ELSE Ok(db_name)

table_exists(d, db_name, table_name, io) ==
    IF ~get_engine(db_name).ok THEN get_engine(db_name)
    ELSE IF io = "error" THEN Err(IoError)
    ELSE Ok(d[db_name][table_name].exists)

count_records(d, db_name, table_name, io) ==
    IF ~get_engine(db_name).ok THEN get_engine(db_name)
    ELSE IF io = "error" THEN Err(IoError)
    ELSE IF ~d[db_name][table_name].exists THEN Err(NoSuchTable(table_name))
    ELSE Ok(Len(d[db_name][table_name].rows))

\* SELECT * FROM table [LIMIT limit]; limit is an Optional[int] and
\* "if limit:" is false for None and for 0.
get_table_data(d, db_name, table_name, limit, io) ==
    IF ~get_engine(db_name).ok THEN get_engine(db_name)
    ELSE IF io = "error" THEN Err(IoError)
    ELSE IF ~d[db_name][table_name].exists THEN Err(NoSuchTable(table_name))
    ELSE LET rows == d[db_name][table_name].rows IN
         IF limit # None /\ TheValue(limit) # 0
         THEN Ok(SubSeq(rows, 1, Min(TheValue(limit), Len(rows))))
         ELSE Ok(rows)

\* SELECT * FROM table LIMIT :limit OFFSET :offset on the engine's connection
read_page(d, db_name, table_name, limit, offset, io) ==
    IF io = "error" THEN Err(IoError)
    ELSE IF ~d[db_name][table_name].exists THEN Err(NoSuchTable(table_name))
    ELSE LET rows == d[db_name][table_name].rows IN
         Ok(SubSeq(rows, offset + 1, Min(offset + limit, Len(rows))))

\* A writing call also yields the store as it is after the call: a call that
\* raises leaves the store as it was (engine.begin() rolls back).
Wrote(v, d) == [ok |-> TRUE, val |-> v, err |-> <<>>, db |-> d]
Failed(msg, d) == [ok |-> FALSE, val |-> 0, err |-> msg, db |-> d]

\* An insert that swallows the store's error and reports the batch written.
insert_batch_swallows(d, db_name, table_name, records, io) ==
    IF records = <<>> THEN Wrote(0, d)
    ELSE IF ~get_engine(db_name).ok THEN Failed(get_engine(db_name).err, d)
    ELSE IF io = "error" THEN Wrote(Len(records), d)
    ELSE IF ~d[db_name][table_name].exists
         THEN Failed(NoSuchTable(table_name), d)
    ELSE Wrote(Len(records),
               [d EXCEPT ![db_name][table_name].rows = @ \o records])

insert_batch(d, db_name, table_name, records, io) ==
    IF records = <<>> THEN Wrote(0, d)
    ELSE IF ~get_engine(db_name).ok THEN Failed(get_engine(db_name).err, d)
    ELSE IF io = "error" THEN Failed(IoError, d)
    ELSE IF ~d[db_name][table_name].exists
         THEN Failed(NoSuchTable(table_name), d)
    ELSE Wrote(Len(records),
               [d EXCEPT ![db_name][table_name].rows = @ \o records])

\* CREATE TABLE without IF NOT EXISTS.
create_table_strict(d, db_name, table_name, columns, io) ==
    IF ~get_engine(db_name).ok THEN Failed(get_engine(db_name).err, d)
    ELSE IF io = "error" THEN Failed(IoError, d)
    ELSE IF d[db_name][table_name].exists
         THEN Failed(<<"table ", table_name, " already exists">>, d)
    ELSE Wrote(0, [d EXCEPT ![db_name][table_name] =
                      [exists |-> TRUE, cols |-> columns, rows |-> <<>>]])

\* CREATE TABLE after DROP TABLE IF EXISTS.
create_table_replaces(d, db_name, table_name, columns, io) ==
    IF ~get_engine(db_name).ok THEN Failed(get_engine(db_name).err, d)
    ELSE IF io = "error" THEN Failed(IoError, d)
    ELSE Wrote(0, [d EXCEPT ![db_name][table_name] =
                      [exists |-> TRUE, cols |-> columns, rows |-> <<>>]])

\* CREATE TABLE IF NOT EXISTS table (columns)
create_table_from_schema(d, db_name, table_name, columns, io) ==
    IF ~get_engine(db_name).ok THEN Failed(get_engine(db_name).err, d)
    ELSE IF io = "error" THEN Failed(IoError, d)
    ELSE IF d[db_name][table_name].exists THEN Wrote(0, d)
    ELSE Wrote(0, [d EXCEPT ![db_name][table_name] =
                      [exists |-> TRUE, cols |-> columns, rows |-> <<>>]])

\* ------------------------------------------------ schema inference (inline)
\* One test for both numeric kinds.
InferTypeNumericIsInteger(value) ==
    IF value[1] \in {"int", "bool", "float"} THEN "INTEGER" ELSE "TEXT"

\* isinstance(value, int) is true of a bool as well.
InferType(value) ==
    IF value[1] \in {"int", "bool"} THEN "INTEGER"
    ELSE IF value[1] = "float" THEN "REAL"
    ELSE "TEXT"

InferSchema(row) == [i \in DOMAIN row |-> <<row[i][1], InferType(row[i][2])>>]

\* ------------------------------------------- get_status, get_all_transfers
\* A returned sequence: a list of its own (items), or one that shows the
\* registry as it is now (live).
Values(d) == [i \in DOMAIN d |-> d[i][2]]

\* return self.transfers.get(transfer_id)
get_status(d, transfer_id) == DictGet(d, transfer_id)

\* The dict's view returned without list().
get_all_transfers_view(d) == [live |-> TRUE, items |-> <<>>]

\* return list(self.transfers.values())
get_all_transfers(d) == [live |-> FALSE, items |-> Values(d)]

NoRead ==
    [op |-> "none", id |-> "", one |-> None,
     all |-> [live |-> FALSE, items |-> <<>>],
     seenRefs |-> <<>>, seenRecs |-> <<>>]

\* ------------------------------------------------------------------- Init
\* DataTransferService.__init__: an empty registry and a free lock.  The
\* stores hold what they held before the service started: a source table
\* "users" of 0..MaxRows rows, no table "ghost", and a destination table
\* "users_copy" that exists (empty) or does not.
Rows(a, b) == [i \in 1..(b - a + 1) |-> Row(a + i - 1)]

NoFrame ==
    [total_records |-> 0, offset |-> 0, batch_data |-> <<>>,
     records_inserted |-> 0, schema |-> <<>>, exc |-> None]

\* DataTransferService.__init__: no transfer, the lock free.
InitService ==
    /\ db0 = db
    /\ reader = NoRead
    /\ inserted = [t \in Procs |-> <<>>]
    /\ transfers = <<>>
    /\ lock = None
    /\ status = <<>>
    /\ config = <<>>
    /\ pc = [t \in Procs |-> "idle"]
    /\ frame = [t \in Procs |-> NoFrame]
    /\ calls = [t \in Procs |-> <<>>]
    /\ outcome = [t \in Procs |-> None]

Init ==
    /\ \E n \in 0..MaxRows, dest \in BOOLEAN :
          /\ db = [e \in engines |-> [tn \in TableNames |->
                    IF e = "source" /\ tn = "users"
                    THEN [exists |-> TRUE, cols |-> InferSchema(Row(1)),
                          rows |-> Rows(1, n)]
                    ELSE IF e = "destination" /\ tn = "users_copy" /\ dest
                    THEN [exists |-> TRUE, cols |-> InferSchema(Row(1)),
                          rows |-> <<>>]
                    ELSE AbsentTable]]
          /\ nextRow = n + 1
    /\ InitService

\* The values the sqlite driver hands back for a column: an int, a float, a
\* str, a bytes or None (the payload of each kind is one representative).
SampleValues ==
    {<<"int", 1>>, <<"float", 75000>>, <<"str", 1>>, <<"bytes", 1>>,
     <<"none", 0>>}

ColumnNames == <<"id", "name", "salary">>

\* The rows of one to three columns over those values.
SampleRows ==
    UNION {{[i \in 1..k |-> <<ColumnNames[i], v[i]>>] :
               v \in [1..k -> SampleValues]} : k \in 1..Len(ColumnNames)}

\* {id: 1, name: "x", salary: 75000.0}
ExampleRow ==
    << <<"id", <<"int", 1>> >>, <<"name", <<"str", 1>> >>,
       <<"salary", <<"float", 75000>> >> >>

\* The service over a source table "users" of one row of any shape, and no
\* destination table.
InitInfer ==
    /\ \E row \in SampleRows :
          db = [e \in engines |-> [tn \in TableNames |->
                  IF e = "source" /\ tn = "users"
                  THEN [exists |-> TRUE, cols |-> InferSchema(row),
                        rows |-> <<row>>]
                  ELSE AbsentTable]]
    /\ nextRow = MaxRows + 1
    /\ InitService

\* -------------------------------------------------- control of one call
Call(op, db_name, table_name, arg) ==
    [op |-> op, db |-> db_name, table |-> table_name, arg |-> arg]

\* A status kept in one place for every call (an attribute of the service
\* in the place of a local).
GotoShared(t, s, f, p, cs) ==
    /\ status' = [u \in DOMAIN status |-> s]
    /\ frame' = [frame EXCEPT ![t] = f]
    /\ pc' = [pc EXCEPT ![t] = p]
    /\ calls' = [calls EXCEPT ![t] = @ \o cs]
    /\ UNCHANGED outcome

\* Go on to the suspension point p with status s and locals f, having
\* issued the adapter calls cs.
Goto(t, s, f, p, cs) ==
    /\ status' = [status EXCEPT ![t] = s]
    /\ frame' = [frame EXCEPT ![t] = f]
    /\ pc' = [pc EXCEPT ![t] = p]
    /\ calls' = [calls EXCEPT ![t] = @ \o cs]
    /\ UNCHANGED outcome

\* An exception with message msg reaches "except Exception as e": the
\* handler's first suspension point is the acquisition of the lock.
Raise(t, s, f, msg) ==
    Goto(t, s, [f EXCEPT !.exc = Some(msg)], "fail_lock", <<>>)

\* "return status"
ReturnStatus(t) == [kind |-> "returned", value |-> Some(t), error |-> None]

\* Mark as completed and return (also the zero-record return).
Complete(t, s, f) ==
    /\ status' = [status EXCEPT ![t] = MarkCompleted(s, Now)]
    /\ frame' = [frame EXCEPT ![t] = f]
    /\ pc' = [pc EXCEPT ![t] = "done"]
    /\ outcome' = [outcome EXCEPT ![t] = Some(ReturnStatus(t))]
    /\ UNCHANGED calls

\* "while offset <= total_records".
LoopInclusive(t, s, f) ==
    IF f.offset <= f.total_records
    THEN Goto(t, s, f, "page",
              <<Call("read_page", config[t].source_db, config[t].source_table,
                     f.offset)>>)
    ELSE Complete(t, s, f)

\* A loop that counts the source again before each test and stores the count.
LoopRecounts(t, s, f) ==
    LET n == count_records(db, config[t].source_db, config[t].source_table,
                           "ok").val
        s2 == SetTotal(s, n)
        f2 == [f EXCEPT !.total_records = n]
    IN  IF f2.offset < f2.total_records
        THEN Goto(t, s2, f2, "page",
                  <<Call("read_page", config[t].source_db,
                         config[t].source_table, f2.offset)>>)
        ELSE Complete(t, s2, f2)

\* while offset < total_records: read the next page, else fall out
Loop(t, s, f) ==
    IF f.offset < f.total_records
    THEN Goto(t, s, f, "page",
              <<Call("read_page", config[t].source_db, config[t].source_table,
                     f.offset)>>)
    ELSE Complete(t, s, f)

\* offset = 0; source_engine = await get_engine(source_db); the loop
BeginLoop(t, s, f) ==
    IF ~get_engine(config[t].source_db).ok
    THEN Raise(t, s, f, get_engine(config[t].source_db).err)
    ELSE Loop(t, s, [f EXCEPT !.offset = 0])

\* ------------------------------------------------- transfer_data, by step
Others(t) == UNCHANGED <<db, nextRow, transfers, lock, config, inserted, db0, reader>>

\* transfer_id = f"txn_{uuid.uuid4().hex[:12]}"; status = TransferStatus(...)
\* then "async with self._transfer_lock"
Request(t, cfgs) ==
    /\ pc[t] = "idle"
    /\ \E cfg \in cfgs, id \in TransferIds :
          /\ config' = config @@ (t :> cfg)
          /\ status' = status @@ (t :> NewStatus(id, cfg, Now))
    /\ pc' = [pc EXCEPT ![t] = "reg_lock"]
    /\ UNCHANGED <<db, nextRow, transfers, lock, frame, calls, outcome,
                   inserted, db0, reader>>

Start(t) == Request(t, Configs)

\* asyncio.Lock.acquire at any of the three "async with self._transfer_lock"
AcquireLock(t) ==
    /\ pc[t] \in {"reg_lock", "inc_lock", "fail_lock"}
    /\ lock = None
    /\ lock' = Some(t)
    /\ pc' = [pc EXCEPT ![t] = CASE pc[t] = "reg_lock" -> "reg_held"
                                 [] pc[t] = "inc_lock" -> "inc_held"
                                 [] pc[t] = "fail_lock" -> "fail_held"]
    /\ UNCHANGED <<db, nextRow, transfers, status, config, frame, calls,
                   outcome, inserted, db0, reader>>

\* The rest of the try block indented under the "async with".
RegisterKeepsLock(t) ==
    /\ pc[t] = "reg_held"
    /\ transfers' = DictSet(transfers, status[t].transfer_id, t)
    /\ Goto(t, status[t], frame[t], "source_exists",
            <<Call("table_exists", config[t].source_db,
                   config[t].source_table, 0)>>)
    /\ UNCHANGED <<db, nextRow, lock, config, inserted, db0, reader>>

\* self.transfers[transfer_id] = status; release; call table_exists(source)
Register(t) ==
    /\ pc[t] = "reg_held"
    /\ transfers' = DictSet(transfers, status[t].transfer_id, t)
    /\ lock' = None
    /\ Goto(t, status[t], frame[t], "source_exists",
            <<Call("table_exists", config[t].source_db,
                   config[t].source_table, 0)>>)
    /\ UNCHANGED <<db, nextRow, config, inserted, db0, reader>>

\* source_exists = await table_exists(...); if not source_exists: raise
SourceExists(t) ==
    /\ pc[t] = "source_exists"
    /\ \E io \in IoResults :
          LET cfg == config[t]
              r == table_exists(db, cfg.source_db, cfg.source_table, io)
          IN  IF ~r.ok THEN Raise(t, status[t], frame[t], r.err)
              ELSE IF ~r.val
                   THEN Raise(t, status[t], frame[t], SourceMissing(cfg))
              ELSE Goto(t, status[t], frame[t], "count",
                        <<Call("count_records", cfg.source_db,
                               cfg.source_table, 0)>>)
    /\ Others(t)

\* A zero test that never holds.
NeverZero(n) == FALSE

\* if total_records == 0
ZeroRecords(n) == n = 0

\* total_records = await count_records(...); status.total_records = ...;
\* if total_records == 0: completed, return
CountRecords(t) ==
    /\ pc[t] = "count"
    /\ \E io \in IoResults :
          LET cfg == config[t]
              r == count_records(db, cfg.source_db, cfg.source_table, io)
          IN  IF ~r.ok THEN Raise(t, status[t], frame[t], r.err)
              ELSE LET s == SetTotal(status[t], r.val)
                       f == [frame[t] EXCEPT !.total_records = r.val]
                   IN  IF ZeroRecords(r.val) THEN Complete(t, s, f)
                       ELSE Goto(t, s, f, "dest_exists",
                                 <<Call("table_exists", cfg.destination_db,
                                        cfg.destination_table, 0)>>)
    /\ Others(t)

\* "if dest_exists:" written for "if not dest_exists:".
DestExistsInverted(t) ==
    /\ pc[t] = "dest_exists"
    /\ \E io \in IoResults :
          LET cfg == config[t]
              r == table_exists(db, cfg.destination_db,
                                cfg.destination_table, io)
          IN  IF ~r.ok THEN Raise(t, status[t], frame[t], r.err)
              ELSE IF r.val
                   THEN Goto(t, status[t], frame[t], "sample",
                             <<Call("get_table_data", cfg.source_db,
                                    cfg.source_table, 1)>>)
              ELSE BeginLoop(t, status[t], frame[t])
    /\ Others(t)

\* dest_exists = await table_exists(...); if not dest_exists: sample
DestExists(t) ==
    /\ pc[t] = "dest_exists"
    /\ \E io \in IoResults :
          LET cfg == config[t]
              r == table_exists(db, cfg.destination_db,
                                cfg.destination_table, io)
          IN  IF ~r.ok THEN Raise(t, status[t], frame[t], r.err)
              ELSE IF ~r.val
                   THEN Goto(t, status[t], frame[t], "sample",
                             <<Call("get_table_data", cfg.source_db,
                                    cfg.source_table, 1)>>)
              ELSE BeginLoop(t, status[t], frame[t])
    /\ Others(t)

\* sample_data = await get_table_data(..., limit=1); if sample_data: infer
\* the schema and call create_table_from_schema
SampleData(t) ==
    /\ pc[t] = "sample"
    /\ \E io \in IoResults :
          LET cfg == config[t]
              r == get_table_data(db, cfg.source_db, cfg.source_table,
                                  Some(1), io)
          IN  IF ~r.ok THEN Raise(t, status[t], frame[t], r.err)
              ELSE IF r.val # <<>>
                   THEN Goto(t, status[t],
                             [frame[t] EXCEPT !.schema = InferSchema(r.val[1])],
                             "create",
                             <<Call("create_table_from_schema",
                                    cfg.destination_db,
                                    cfg.destination_table, 0)>>)
              ELSE BeginLoop(t, status[t], frame[t])
    /\ Others(t)

\* await create_table_from_schema(...); then the copy loop
CreateTable(t) ==
    /\ pc[t] = "create"
    /\ \E io \in IoResults :
          LET cfg == config[t]
              r == create_table_from_schema(db, cfg.destination_db,
                       cfg.destination_table, frame[t].schema, io)
          IN  /\ db' = r.db
              /\ IF ~r.ok THEN Raise(t, status[t], frame[t], r.err)
                 ELSE BeginLoop(t, status[t], frame[t])
    /\ UNCHANGED <<nextRow, transfers, lock, config, inserted, db0, reader>>

\* An empty page raised as an error instead of "break".
ReadPageEmptyRaises(t) ==
    /\ pc[t] = "page"
    /\ \E io \in IoResults :
          LET cfg == config[t]
              r == read_page(db, cfg.source_db, cfg.source_table,
                             cfg.batch_size, frame[t].offset, io)
          IN  IF ~r.ok THEN Raise(t, status[t], frame[t], r.err)
              ELSE LET f == [frame[t] EXCEPT !.batch_data = r.val]
                   IN  IF r.val = <<>>
                       THEN Raise(t, status[t], f, <<"no rows at offset">>)
                       ELSE Goto(t, status[t], f, "insert",
                                 <<Call("insert_batch", cfg.destination_db,
                                        cfg.destination_table, Len(r.val))>>)
    /\ Others(t)

\* the page arrives; if not batch_data: break; else call insert_batch
ReadPage(t) ==
    /\ pc[t] = "page"
    /\ \E io \in IoResults :
          LET cfg == config[t]
              r == read_page(db, cfg.source_db, cfg.source_table,
                             cfg.batch_size, frame[t].offset, io)
          IN  IF ~r.ok THEN Raise(t, status[t], frame[t], r.err)
              ELSE LET f == [frame[t] EXCEPT !.batch_data = r.val]
                   IN  IF r.val = <<>> THEN Complete(t, status[t], f)
                       ELSE Goto(t, status[t], f, "insert",
                                 <<Call("insert_batch", cfg.destination_db,
                                        cfg.destination_table, Len(r.val))>>)
    /\ Others(t)

\* An inner handler that logs and goes round the loop again ("continue").
InsertBatchContinues(t) ==
    /\ pc[t] = "insert"
    /\ \E io \in IoResults :
          LET cfg == config[t]
              r == insert_batch(db, cfg.destination_db,
                                cfg.destination_table, frame[t].batch_data, io)
          IN  /\ db' = r.db
              /\ IF ~r.ok
                 THEN Goto(t, status[t], frame[t], "page",
                           <<Call("read_page", cfg.source_db,
                                  cfg.source_table, frame[t].offset)>>)
                 ELSE Goto(t, status[t],
                           [frame[t] EXCEPT !.records_inserted = r.val],
                           "inc_lock", <<>>)
    /\ inserted' =
          LET cfg == config[t]
              Stored(d) == IF cfg.destination_db \in engines
                           THEN Len(d[cfg.destination_db]
                                     [cfg.destination_table].rows)
                           ELSE 0
          IN  IF Stored(db') > Stored(db)
              THEN [inserted EXCEPT ![t] = Append(@, Stored(db') - Stored(db))]
              ELSE inserted
    /\ UNCHANGED <<nextRow, transfers, lock, config, db0, reader>>

\* records_inserted = await insert_batch(...); on an exception: log, raise
InsertBatch(t) ==
    /\ pc[t] = "insert"
    /\ \E io \in IoResults :
          LET cfg == config[t]
              r == insert_batch(db, cfg.destination_db,
                                cfg.destination_table, frame[t].batch_data, io)
          IN  /\ db' = r.db
              /\ IF ~r.ok THEN Raise(t, status[t], frame[t], r.err)
                 ELSE Goto(t, status[t],
                           [frame[t] EXCEPT !.records_inserted = r.val],
                           "inc_lock", <<>>)
    /\ inserted' =
          LET cfg == config[t]
              Stored(d) == IF cfg.destination_db \in engines
                           THEN Len(d[cfg.destination_db]
                                     [cfg.destination_table].rows)
                           ELSE 0
          IN  IF Stored(db') > Stored(db)
              THEN [inserted EXCEPT ![t] = Append(@, Stored(db') - Stored(db))]
              ELSE inserted
    /\ UNCHANGED <<nextRow, transfers, lock, config, db0, reader>>

\* An offset that moves on by one row.
NextOffsetByOne(offset, batch_size) == offset + 1

\* offset += batch_size
NextOffset(offset, batch_size) == offset + batch_size

\* status.records_transferred += records_inserted; release;
\* offset += batch_size; back to the loop condition
Increment(t) ==
    /\ pc[t] = "inc_held"
    /\ lock' = None
    /\ Loop(t, AddTransferred(status[t], frame[t].records_inserted),
            [frame[t] EXCEPT
                !.offset = NextOffset(@, config[t].batch_size)])
    /\ UNCHANGED <<db, nextRow, transfers, config, inserted, db0, reader>>

\* A handler that ends in "raise" instead.
HandlerReraises(t, msg) ==
    [kind |-> "raised", value |-> None, error |-> Some(msg)]

\* The handler leaves by "return status".
HandlerExit(t, msg) == ReturnStatus(t)

\* status.status = "failed"; error_message = str(e); completed_at = now();
\* release; return status
Fail(t) ==
    /\ pc[t] = "fail_held"
    /\ lock' = None
    /\ status' = [status EXCEPT
                    ![t] = MarkFailed(@, TheValue(frame[t].exc), Now)]
    /\ pc' = [pc EXCEPT ![t] = "done"]
    /\ outcome' = [outcome EXCEPT
                     ![t] = Some(HandlerExit(t, TheValue(frame[t].exc)))]
    /\ UNCHANGED <<db, nextRow, transfers, config, frame, calls, inserted,
                   db0, reader>>

\* ------------------------------------------ external writers of the source
SourceInsertRow ==
    /\ nextRow <= MaxRows
    /\ db' = [db EXCEPT !["source"]["users"].rows = Append(@, Row(nextRow))]
    /\ nextRow' = nextRow + 1
    /\ UNCHANGED <<transfers, lock, status, config, pc, frame, calls,
                   outcome, inserted, db0, reader>>

SourceDeleteRow ==
    /\ db["source"]["users"].rows # <<>>
    /\ db' = [db EXCEPT !["source"]["users"].rows = Tail(@)]
    /\ UNCHANGED <<nextRow, transfers, lock, status, config, pc, frame, calls,
                   outcome, inserted, db0, reader>>

\* ------------------------------------------------------------- the readers
\* The objects a returned sequence holds now, and the fields they show.
Items(r) == IF r.live THEN Values(transfers) ELSE r.items
Shown(refs) == [i \in DOMAIN refs |-> status[refs[i]]]

\* async with self._transfer_lock: return self.transfers.get(transfer_id)
\* seenRefs and seenRecs keep what the result held when it was returned.
GetStatus(id) ==
    /\ lock = None
    /\ LET r == get_status(transfers, id)
           refs == IF r = None THEN <<>> ELSE <<TheValue(r)>>
       IN  reader' = [op |-> "get_status", id |-> id, one |-> r,
                      all |-> [live |-> FALSE, items |-> <<>>],
                      seenRefs |-> refs, seenRecs |-> Shown(refs)]
    /\ UNCHANGED <<db, nextRow, transfers, lock, status, config, pc, frame,
                   calls, outcome, inserted, db0>>

\* async with self._transfer_lock: return list(self.transfers.values())
GetAllTransfers ==
    /\ lock = None
    /\ LET r == get_all_transfers(transfers)
       IN  reader' = [op |-> "get_all_transfers", id |-> "", one |-> None,
                      all |-> r,
                      seenRefs |-> Values(transfers),
                      seenRecs |-> Shown(Values(transfers))]
    /\ UNCHANGED <<db, nextRow, transfers, lock, status, config, pc, frame,
                   calls, outcome, inserted, db0>>

\* ------------------------------------------------------------------- Next
\* The steps of a call after its first.
Run(t) ==
    \/ AcquireLock(t)
    \/ Register(t)
    \/ SourceExists(t)
    \/ CountRecords(t)
    \/ DestExists(t)
    \/ SampleData(t)
    \/ CreateTable(t)
    \/ ReadPage(t)
    \/ InsertBatch(t)
    \/ Increment(t)
    \/ Fail(t)

\* One request, of any config, against a source table that external writers
\* change while the transfer runs.
Next ==
    \/ Start(1)
    \/ Run(1)
    \/ SourceInsertRow
    \/ SourceDeleteRow

Spec == Init /\ [][Next]_vars

\* Two requests that run concurrently, interleaved at every suspension
\* point, each a well-formed transfer of "users" into "users_copy"; the
\* source table is not written meanwhile.
ConcurrentConfigs ==
    {c \in Configs : /\ c.source_db = "source"
                     /\ c.destination_db = "destination"
                     /\ c.source_table = "users"}

StartConcurrent(t) == Request(t, ConcurrentConfigs)

NextConc ==
    \E t \in Procs :
        \/ StartConcurrent(t)
        \/ Run(t)

SpecConc == Init /\ [][NextConc]_vars

\* One request of any config, with get_status and get_all_transfers calls at
\* any suspension point of it; the source table is not written meanwhile.
NextRead ==
    \/ Start(1)
    \/ Run(1)
    \/ \E id \in TransferIds : GetStatus(id)
    \/ GetAllTransfers

SpecRead == Init /\ [][NextRead]_vars

\* The event loop resumes every coroutine that can run: each adapter call
\* returns or raises, and the lock is granted when it is free.
SpecFair == Spec /\ WF_vars(Run(1))

\* One request that has to create its destination table from the one row of
\* the source table.
StartInfer(t) ==
    Request(t, {Config("source", "destination", "users", MaxBatch)})

NextInfer == StartInfer(1) \/ Run(1)

SpecInfer == InitInfer /\ [][NextInfer]_vars

\* ================================================================ claims
Started == DOMAIN status
Terminal == {"completed", "failed"}
Returned(t) == pc[t] = "done"
LastCall(t) == calls[t][Len(calls[t])]
UnknownStore(cfg) ==
    cfg.source_db \notin engines \/ cfg.destination_db \notin engines

\* C1: once the status record is registered, an exception raised by any
\* later step does not reach the caller: transfer_data returns the record it
\* registered, with status failed, error_message the exception's message and
\* completed_at set.
C1_FailuresAreReturned ==
    \A t \in Started :
        /\ outcome[t] # None => /\ Returned(t)
                                /\ outcome[t] = Some(ReturnStatus(t))
        /\ Returned(t) =>
              /\ outcome[t] = Some(ReturnStatus(t))
              /\ DictGet(transfers, status[t].transfer_id) = Some(t)
              /\ frame[t].exc # None =>
                    /\ status[t].status = "failed"
                    /\ status[t].error_message = frame[t].exc
                    /\ status[t].completed_at # None

\* C1 witness: an insert_batch call raised in a transfer that had already
\* copied a batch, and the call has returned.
C1_Witness ==
    \E t \in Started :
        /\ Returned(t)
        /\ frame[t].exc = Some(IoError)
        /\ LastCall(t).op = "insert_batch"
        /\ status[t].records_transferred > 0

\* What one step may do to the status records' states.
C2_Step ==
    /\ \A t \in DOMAIN status' \ Started : status'[t].status = "running"
    /\ \A t \in Started :
          /\ t \in DOMAIN status'
          /\ status[t].status \in Terminal => status'[t] = status[t]
          /\ status[t].status # status'[t].status =>
                /\ status[t].status = "running"
                /\ status'[t].status \in Terminal

\* C2: a status record starts running and changes state at most once, to
\* completed or to failed; once it is completed or failed no step changes
\* any of its fields.
C2_TerminalIsFinal == [][C2_Step]_vars

\* C2 witness: one record is failed with a batch counted, while the other
\* transfer is about to write its own record.
C2_Witness ==
    \E t \in Started, u \in Started :
        /\ t # u
        /\ status[t].status = "failed"
        /\ status[t].records_transferred > 0
        /\ pc[u] = "inc_held"

\* C3 as stated: a config that names an unknown store is rejected before
\* registration: no record of it is in the registry and the caller gets the
\* error.
C3_RejectedBeforeRegistration ==
    \A t \in DOMAIN config :
        UnknownStore(config[t]) =>
            /\ \A i \in DOMAIN transfers : transfers[i][2] # t
            /\ Returned(t) => \E o \in outcome[t] : o.kind = "raised"

\* C3 as amended: such a request is registered like any other; nothing is
\* raised to the caller, and a call on the unknown store ends the transfer
\* failed with get_engine's message naming that store (always so for an
\* unknown source store).
C3_UnknownStoreIsAFailedTransfer ==
    \A t \in DOMAIN config :
        UnknownStore(config[t]) =>
            /\ pc[t] \notin {"idle", "reg_lock", "reg_held"} =>
                  DictGet(transfers, status[t].transfer_id) = Some(t)
            /\ Returned(t) =>
                  /\ outcome[t] = Some(ReturnStatus(t))
                  /\ config[t].source_db \notin engines => calls[t] # <<>>
                  /\ \A i \in DOMAIN calls[t] :
                        calls[t][i].db \notin engines =>
                           /\ i = Len(calls[t])
                           /\ status[t].status = "failed"
                           /\ status[t].error_message =
                                 Some(UnknownDatabase(calls[t][i].db))

\* C3 witness: a request with an unknown destination store has returned a
\* failed record that names the store.
C3_Witness ==
    \E t \in DOMAIN config :
        /\ config[t].destination_db \notin engines
        /\ Returned(t)
        /\ status[t].error_message =
              Some(UnknownDatabase(config[t].destination_db))

RECURSIVE Sum(_)
Sum(q) == IF q = <<>> THEN 0 ELSE Head(q) + Sum(Tail(q))

\* C4 as stated: records_transferred never exceeds total_records, whatever
\* happens to the source table during the transfer.
C4_NeverExceedsTotal ==
    \A t \in Started :
        status[t].records_transferred <= status[t].total_records

\* What one step may do to records_transferred.
C5_Step ==
    /\ \A t \in DOMAIN status' \ Started : status'[t].records_transferred = 0
    /\ \A t \in Started :
          /\ status'[t].records_transferred >= status[t].records_transferred
          /\ status'[t].records_transferred # status[t].records_transferred =>
                /\ pc[t] = "inc_held"
                /\ inserted[t] # <<>>
                /\ status'[t].records_transferred =
                      status[t].records_transferred
                      + inserted[t][Len(inserted[t])]

\* C5: records_transferred starts at 0 and never decreases; the one step
\* that changes it adds the row count the last successful insert_batch
\* returned.
C5_Monotonic == [][C5_Step]_vars

\* C5 witness: a second batch has been counted.
C5_Witness ==
    \E t \in Started :
        /\ Len(inserted[t]) >= 2
        /\ status[t].records_transferred = Sum(inserted[t])

\* C6: records_transferred is at most the number of rows the transfer's
\* insert_batch calls have committed to the destination.
C6_NeverAheadOfDestination ==
    \A t \in Started :
        /\ status[t].records_transferred <= Sum(inserted[t])
        /\ pc[t] \notin {"inc_lock", "inc_held"} =>
              status[t].records_transferred = Sum(inserted[t])

\* C6 witness: a batch is committed and not yet counted, after an earlier
\* batch that is.
C6_Witness ==
    \E t \in Started :
        /\ pc[t] = "inc_lock"
        /\ status[t].records_transferred > 0
        /\ status[t].records_transferred < Sum(inserted[t])

\* C7: completed_at is set exactly in the states completed and failed.
C7_CompletedAtIffTerminal ==
    \A t \in Started :
        status[t].completed_at # None <=> status[t].status \in Terminal

\* C7 witness: a failed record, registered and readable.
C7_Witness ==
    \E t \in Started :
        /\ status[t].status = "failed"
        /\ DictGet(transfers, status[t].transfer_id) = Some(t)
        /\ lock = None

\* C8: error_message is set exactly in the state failed.
C8_ErrorMessageIffFailed ==
    \A t \in Started :
        status[t].error_message # None <=> status[t].status = "failed"

\* C8 witness: a completed record that copied rows, and so has no message.
C8_Witness ==
    \E t \in Started :
        /\ status[t].status = "completed"
        /\ status[t].records_transferred > 0
        /\ status[t].error_message = None

\* The count has returned 0 to transfer t.
CountedZero(t) ==
    /\ Len(calls[t]) >= 2
    /\ pc[t] # "count"
    /\ frame[t].exc = None
    /\ frame[t].total_records = 0

\* C9: when the source table exists and the count returns 0, the call
\* returns completed with records_transferred = total_records = 0, having
\* issued the source existence check and the count and no other call.
C9_ZeroRecordCompletion ==
    \A t \in Started :
        CountedZero(t) =>
            /\ Returned(t)
            /\ outcome[t] = Some(ReturnStatus(t))
            /\ status[t].status = "completed"
            /\ status[t].records_transferred = 0
            /\ status[t].total_records = 0
            /\ Len(calls[t]) = 2
            /\ calls[t][1].op = "table_exists"
            /\ calls[t][2].op = "count_records"
            /\ inserted[t] = <<>>

\* C9 witness: a count of 0 on a source table that held rows when the
\* service started.
C9_Witness ==
    \E t \in Started :
        /\ CountedZero(t)
        /\ db0["source"]["users"].rows # <<>>

\* Transfer t has returned, its source table is absent and the existence
\* check was answered.
SourceTableMissing(t) ==
    /\ config[t].source_db \in engines
    /\ ~db[config[t].source_db][config[t].source_table].exists
    /\ Returned(t)
    /\ frame[t].exc # Some(IoError)

\* C10: when the source table does not exist, the call returns failed with
\* a message that names the table and the store, having issued the source
\* existence check and no other call; the destination store is unchanged.
C10_MissingSourceFails ==
    \A t \in Started :
        SourceTableMissing(t) =>
            /\ outcome[t] = Some(ReturnStatus(t))
            /\ status[t].status = "failed"
            /\ \E m \in status[t].error_message :
                  /\ Mentions(m, config[t].source_table)
                  /\ Mentions(m, config[t].source_db)
            /\ Len(calls[t]) = 1
            /\ calls[t][1].op = "table_exists"
            /\ inserted[t] = <<>>
            /\ db["destination"] = db0["destination"]

\* C10 witness: the request for the table "ghost" has returned.
C10_Witness ==
    \E t \in Started :
        /\ SourceTableMissing(t)
        /\ config[t].source_table = "ghost"
        /\ ~db["destination"]["users_copy"].exists


\* The calls of one kind that transfer t has issued.
CallsOf(t, op) == {i \in DOMAIN calls[t] : calls[t][i].op = op}

\* ceil(n / b)
CeilDiv(n, b) == (n + b - 1) \div b

\* Nobody has written the source store since the service started (an added
\* row has a new id and a deleted row does not come back).
SourceUntouched == db["source"] = db0["source"]

\* Transfer t has returned with no exception caught, from a source table of
\* at least one row that was not written meanwhile.
CleanRun(t) ==
    /\ Returned(t)
    /\ frame[t].exc = None
    /\ SourceUntouched
    /\ config[t].source_db = "source"
    /\ Len(db0["source"][config[t].source_table].rows) >= 1

\* C11: over a source table of N >= 1 rows that does not change, a transfer
\* of batch size B in which no call fails issues ceil(N/B) insert_batch
\* calls whose rows sum to N, and ends completed with
\* records_transferred = total_records = N.
C11_BatchCompleteness ==
    \A t \in Started :
        CleanRun(t) =>
            LET N == Len(db0["source"][config[t].source_table].rows)
                B == config[t].batch_size
            IN  /\ Cardinality(CallsOf(t, "insert_batch")) = CeilDiv(N, B)
                /\ Len(inserted[t]) = CeilDiv(N, B)
                /\ Sum(inserted[t]) = N
                /\ status[t].status = "completed"
                /\ status[t].records_transferred = N
                /\ status[t].total_records = N

\* C11 witness: three rows copied in batches of two, the last batch short.
C11_Witness ==
    \E t \in Started :
        /\ CleanRun(t)
        /\ config[t].batch_size = 2
        /\ inserted[t] = <<2, 1>>


\* What one step may do to the status records of two transfers: the step
\* that changes a record is a step of the call that created it.
C12_Step ==
    \A t \in Started :
        status'[t] # status[t] =>
            /\ pc'[t] # pc[t]
            /\ \A u \in Procs \ {t} : pc'[u] = pc[u] /\ frame'[u] = frame[u]

\* C12: when two transfers run concurrently, interleaved at every await,
\* no step of one writes a field of the other's status record.
C12_RegistryIsolation == [][C12_Step]_vars

\* C12 witness: two transfers under distinct identifiers have both counted
\* batches, and one ended failed while the other ended completed.
C12_Witness ==
    \E t \in Started, u \in Started :
        /\ status[t].transfer_id # status[u].transfer_id
        /\ status[t].status = "failed"
        /\ status[t].records_transferred > 0
        /\ status[u].status = "completed"
        /\ status[u].records_transferred > status[t].records_transferred


\* The fields of a record agree with its state: no transition is half applied.
Whole(s) ==
    \/ s.status = "running" /\ s.completed_at = None /\ s.error_message = None
    \/ s.status = "completed" /\ s.completed_at # None
                              /\ s.error_message = None
    \/ s.status = "failed" /\ s.completed_at # None /\ s.error_message # None

\* C13: a get_status or get_all_transfers call made at any suspension point of
\* a transfer never observes a half-updated record: every record it returned
\* showed, when it was returned, and shows at any later time, either all or
\* none of the fields of the completion (status, completed_at) and of the
\* failure (status, error_message, completed_at).
C13_NoHalfUpdatedRecord ==
    /\ \A i \in DOMAIN reader.seenRecs : Whole(reader.seenRecs[i])
    /\ \A i \in DOMAIN reader.seenRefs : Whole(status[reader.seenRefs[i]])

\* A reader was handed the record of a transfer that had copied rows and was
\* still running; the transfer has ended since.
C13_Witness ==
    /\ reader.op \in {"get_status", "get_all_transfers"}
    /\ \E i \in DOMAIN reader.seenRecs :
          /\ reader.seenRecs[i].status = "running"
          /\ reader.seenRecs[i].records_transferred > 0
          /\ status[reader.seenRefs[i]].status \in Terminal


\* C14 as stated: the sequence returned by get_all_transfers is a snapshot;
\* transfers started after the call and status updates applied after the call
\* (increments of records_transferred, transitions to completed or failed) do
\* not change what the returned sequence contains: it holds the same records,
\* showing the same fields, as when it was returned.
C14_ReturnedSequenceIsFrozen ==
    reader.op = "get_all_transfers" =>
        /\ Items(reader.all) = reader.seenRefs
        /\ Shown(Items(reader.all)) = reader.seenRecs

\* C14 as amended: the sequence returned by get_all_transfers is a snapshot of
\* which records the registry held, and in which order, when the call
\* returned: transfers registered later do not appear in it. (Its elements
\* are the registry's own records, so later updates show through them.)
C14_ReturnedMembershipIsFrozen ==
    reader.op = "get_all_transfers" => Items(reader.all) = reader.seenRefs

\* get_all_transfers returned the empty sequence, and a transfer has been
\* registered and has copied rows since.
C14_Witness ==
    /\ reader.op = "get_all_transfers"
    /\ reader.seenRefs = <<>>
    /\ Len(transfers) = 1
    /\ \E t \in Started : status[t].records_transferred > 0


\* The calls that have run self.transfers[transfer_id] = status.
Registered == {t \in Started : pc[t] \notin {"reg_lock", "reg_held"}}

\* C15: after any sequence of transfer_data calls the registry holds exactly
\* one status record per started transfer: the identifier generated for a new
\* transfer is never already a key of the registry, so registering a transfer
\* never replaces an existing record.
C15_OneRecordPerTransfer ==
    /\ Len(transfers) = Cardinality(Registered)
    /\ \A t \in Registered : \E i \in DOMAIN transfers : transfers[i][2] = t
    /\ \A t \in Started :
          pc[t] = "reg_held" =>
              get_status(transfers, status[t].transfer_id) = None

\* C16: get_status(id) returns None for an identifier no transfer was
\* registered under, and for the identifier of a registered transfer it
\* returns that transfer's record from before the transfer's first adapter
\* call at every later time, so the outcome of a failed transfer stays
\* queryable.
C16_StatusStaysQueryable ==
    /\ \A id \in TransferIds :
          (\A t \in Registered : status[t].transfer_id # id) =>
              get_status(transfers, id) = None
    /\ \A t \in Started :
          Len(calls[t]) > 0 =>
              get_status(transfers, status[t].transfer_id) = Some(t)


\* What one step may do to total_records, and how the loop tests it.
C17_Step ==
    \A t \in Started :
        /\ (\/ status'[t].total_records # status[t].total_records
            \/ frame'[t].total_records # frame[t].total_records) =>
              /\ pc[t] = "count"
              /\ status[t].total_records = 0
              /\ status'[t].total_records =
                     Len(db[config[t].source_db][config[t].source_table].rows)
              /\ frame'[t].total_records = status'[t].total_records
        /\ Cardinality({i \in DOMAIN calls'[t] :
                           calls'[t][i].op = "count_records"}) <= 1
        /\ pc[t] # "page" /\ pc'[t] = "page" =>
              frame'[t].offset < status'[t].total_records
        /\ pc[t] = "inc_held" /\ pc'[t] = "done" =>
              frame'[t].offset >= status'[t].total_records

\* C17: total_records is written at most once, by the step that receives
\* the result of the single count_records call, and never changes afterwards,
\* also when the source table gains or loses rows during the transfer; the
\* loop test compares the offset with that same counted value.
C17_TotalFixedAfterCount == [][C17_Step]_vars

\* A transfer is in its copy loop, has copied rows, and the source table no
\* longer has the number of rows that were counted.
C17_Witness ==
    \E t \in Started :
        /\ pc[t] = "page"
        /\ status[t].records_transferred > 0
        /\ status[t].total_records > 0
        /\ Len(db["source"][config[t].source_table].rows)
              # status[t].total_records


\* C18: every started transfer eventually reaches a terminal state (completed
\* or failed), given that every adapter call eventually returns or raises and
\* the lock is eventually granted.
C18_EventuallyTerminal ==
    \A t \in Procs :
        (t \in Started) ~> (t \in Started /\ status[t].status \in Terminal)


\* A transfer went round its copy loop more than once, while the source
\* table was being written, and has reached a terminal state.
C18_Witness ==
    \E t \in Started :
        /\ status[t].status \in Terminal
        /\ Len(inserted[t]) >= 2
        /\ ~SourceUntouched


\* The calls that have inferred a schema from the sample row.
Inferred == {t \in Started : CallsOf(t, "create_table_from_schema") # {}}

\* C19: schema inference maps every column of the sample row to one type by
\* the kind of its value (int -> INTEGER, float -> REAL, anything else, text
\* and null included -> TEXT); the inferred mapping has exactly the sample
\* row's column names, and {id: 1, name: "x", salary: 75000.0} gives
\* {id: INTEGER, name: TEXT, salary: REAL}. The table that is then created
\* has that mapping as its columns.
C19_SchemaInference ==
    \A t \in Inferred :
        LET row == db0["source"][config[t].source_table].rows[1]
            schema == frame[t].schema
            dest == db[config[t].destination_db][config[t].destination_table]
        IN  /\ DOMAIN schema = DOMAIN row
            /\ \A i \in DOMAIN row :
                  /\ schema[i][1] = row[i][1]
                  /\ row[i][2][1] = "int" => schema[i][2] = "INTEGER"
                  /\ row[i][2][1] = "float" => schema[i][2] = "REAL"
                  /\ row[i][2][1] \notin {"int", "float"} =>
                        schema[i][2] = "TEXT"
            /\ row = ExampleRow =>
                  schema = << <<"id", "INTEGER">>, <<"name", "TEXT">>,
                              <<"salary", "REAL">> >>
            /\ dest.exists => dest.cols = schema

\* The destination table has been created from the example row.
C19_Witness ==
    \E t \in Inferred :
        /\ db0["source"][config[t].source_table].rows = <<ExampleRow>>
        /\ db[config[t].destination_db][config[t].destination_table].exists
        /\ status[t].status = "completed"


\* What a create_table_from_schema call does when the table exists, and what
\* a second call after it does.
C20_Step ==
    \A t \in Started :
        pc[t] = "create" =>
            LET cfg == config[t]
                once == create_table_from_schema(db, cfg.destination_db,
                            cfg.destination_table, frame[t].schema, "ok")
                twice == create_table_from_schema(once.db, cfg.destination_db,
                             cfg.destination_table, frame[t].schema, "ok")
            IN  /\ once.ok /\ twice.ok /\ twice.db = once.db
                /\ (/\ db[cfg.destination_db][cfg.destination_table].exists
                    /\ pc'[t] # "create") =>
                      /\ db' = db
                      /\ frame'[t].exc \in {None, Some(IoError)}
                      /\ frame'[t].exc = None => pc'[t] \in {"page", "done"}

\* C20: create_table_from_schema is idempotent: called on a table that
\* exists it raises no error of its own and leaves the table's definition
\* and rows unchanged, so two calls with the same schema end in the store
\* state of one call.
C20_CreateTableIdempotent == [][C20_Step]_vars

\* A transfer is about to create the destination table, which another
\* transfer has created and filled with rows meanwhile.
C20_Witness ==
    \E t \in Started :
        /\ pc[t] = "create"
        /\ db[config[t].destination_db][config[t].destination_table].exists
        /\ db[config[t].destination_db][config[t].destination_table].rows
              # <<>>


\* What one step may write: a registered record, or the registry, only by
\* the call that holds the lock.
C21_Step ==
    /\ \A t \in Registered : status'[t] # status[t] => lock = Some(t)
    /\ transfers' # transfers =>
          \E t \in Started : lock = Some(t) /\ pc[t] = "reg_held"

\* C21: every write of a registered status record (total_records,
\* records_transferred, status, completed_at, error_message) and of the
\* registry mapping is made inside the critical section of the registry
\* lock, which get_status and get_all_transfers take for their reads.
C21_WritesInsideCriticalSection == [][C21_Step]_vars

\* The points at which a call is suspended inside an adapter call.
AdapterAwaits ==
    {"source_exists", "count", "dest_exists", "sample", "create", "page",
     "insert"}

\* C22: the registry lock is never held while a transfer awaits an adapter
\* call: a transfer suspended inside table_exists, count_records,
\* get_table_data, create_table_from_schema, a page read or insert_batch
\* does not hold the lock; the holder is at one of the three locked blocks.
C22_NoLockAcrossAdapterCalls ==
    \A t \in Procs :
        /\ pc[t] \in AdapterAwaits => lock # Some(t)
        /\ lock = Some(t) => pc[t] \in {"reg_held", "inc_held", "fail_held"}

\* One transfer is suspended inside insert_batch while the other holds the
\* lock for its increment.
C22_Witness ==
    \E t \in Procs, u \in Procs :
        /\ t # u
        /\ pc[t] = "insert"
        /\ pc[u] = "inc_held"
        /\ lock = Some(u)


\* The steps from the destination check to the creation of the table, for a
\* call in which none of them raises.
C23_Step ==
    \A t \in Started :
        pc'[t] \notin {pc[t], "fail_lock"} =>
            LET cfg == config[t]
                src == db[cfg.source_db][cfg.source_table]
                dest == db[cfg.destination_db][cfg.destination_table]
            IN  /\ pc[t] = "dest_exists" =>
                      IF dest.exists
                      THEN /\ pc'[t] \in {"page", "done"}
                           /\ CallsOf(t, "get_table_data") = {}
                      ELSE /\ pc'[t] = "sample"
                           /\ calls'[t] = Append(calls[t],
                                  Call("get_table_data", cfg.source_db,
                                       cfg.source_table, 1))
                /\ pc[t] = "sample" /\ src.rows # <<>> =>
                      /\ pc'[t] = "create"
                      /\ frame'[t].schema = InferSchema(src.rows[1])
                      /\ calls'[t] = Append(calls[t],
                             Call("create_table_from_schema",
                                  cfg.destination_db, cfg.destination_table,
                                  0))
                /\ pc[t] = "create" /\ ~dest.exists =>
                      LET made == db'[cfg.destination_db]
                                     [cfg.destination_table]
                      IN  made.exists /\ made.cols = frame[t].schema

\* The order of the calls a transfer has issued so far.
C23_Order ==
    \A t \in Started :
        /\ Cardinality(CallsOf(t, "get_table_data")) <= 1
        /\ Cardinality(CallsOf(t, "create_table_from_schema")) <= 1
        /\ \A i \in CallsOf(t, "create_table_from_schema") :
              /\ calls[t][i - 1].op = "get_table_data"
              /\ \A j \in CallsOf(t, "insert_batch") : i < j
        /\ \A i \in CallsOf(t, "get_table_data") :
              \A j \in CallsOf(t, "insert_batch") : i < j

\* C23: when the destination table is absent and the one-row sample read
\* returns a row, create_table_from_schema is called exactly once, with the
\* schema inferred from that row, before the first insert_batch of the
\* transfer; when the destination table exists, the transfer makes no
\* sample read and no create-table call.
C23_SchemaBeforeCopy == [][C23_Step /\ C23_Order /\ C23_Order']_vars

\* A transfer has created its destination table and inserted a batch.
C23_Witness ==
    \E t \in Started :
        /\ CallsOf(t, "create_table_from_schema") # {}
        /\ inserted[t] # <<>>
        /\ ~db0["destination"][config[t].destination_table].exists


\* The sample read of transfer t returned no row: the call issued after it
\* is the first page read, not the creation of the table.
CreationSkipped(t) ==
    \E i \in CallsOf(t, "get_table_data") :
        i < Len(calls[t]) /\ calls[t][i + 1].op = "read_page"

\* C24: when the destination table is absent and the sample read returns no
\* row although the count was positive, the create-table step is skipped and
\* this is not fatal: the copy loop transfers nothing and the transfer does
\* not end failed because the destination table was not created.
C24_SkippedCreationNotFatal ==
    \A t \in Started :
        CreationSkipped(t) =>
            /\ status[t].total_records > 0
            /\ status[t].records_transferred = 0
            /\ frame[t].exc # Some(NoSuchTable(config[t].destination_table))


\* What the step that receives a page does when the page is empty.
C25_Step ==
    \A t \in Started :
        (/\ pc[t] = "page"
         /\ pc'[t] # pc[t]
         /\ frame'[t].exc # Some(IoError)
         /\ read_page(db, config[t].source_db, config[t].source_table,
                      config[t].batch_size, frame[t].offset, "ok").val
               = <<>>) =>
            /\ frame[t].offset < status[t].total_records
            /\ frame'[t].exc = None
            /\ frame'[t].batch_data = <<>>
            /\ pc'[t] = "done"
            /\ status'[t].status = "completed"
            /\ calls'[t] = calls[t]
            /\ db' = db
            /\ status'[t].records_transferred = status[t].records_transferred
            /\ status'[t].records_transferred = Sum(inserted[t])
            /\ outcome'[t] = Some(ReturnStatus(t))

\* C25: when a page read at an offset below total_records returns no rows,
\* the loop stops without an insert_batch call for that page and the transfer
\* ends completed, not failed, with records_transferred left at the sum of
\* the earlier batches (which may be less than total_records).
C25_EmptyPageStopsLoop == [][C25_Step]_vars

\* A transfer completed on an empty page after it had copied rows, short of
\* the rows it had counted.
C25_Witness ==
    \E t \in Started :
        /\ Returned(t)
        /\ status[t].status = "completed"
        /\ frame[t].batch_data = <<>>
        /\ LastCall(t).op = "read_page"
        /\ status[t].records_transferred > 0
        /\ status[t].records_transferred < status[t].total_records


\* Transfer t caught an exception raised by its last insert_batch call.
InsertRaised(t) ==
    /\ frame[t].exc # None
    /\ LastCall(t).op = "insert_batch"

\* The step in which an insert_batch call returns or raises, and the steps
\* after one that raised.
C26_Step ==
    \A t \in Started :
        /\ pc[t] = "insert" /\ pc'[t] # pc[t] =>
              \/ pc'[t] = "inc_lock" /\ frame'[t].exc = None
              \/ /\ pc'[t] = "fail_lock"
                 /\ frame'[t].exc # None
                 /\ db' = db
                 /\ calls'[t] = calls[t]
                 /\ status'[t] = status[t]
                 /\ frame'[t].offset = frame[t].offset
        /\ frame[t].exc # None =>
              /\ calls'[t] = calls[t]
              /\ frame'[t].offset = frame[t].offset
              /\ status'[t].records_transferred =
                    status[t].records_transferred
              /\ db'["destination"] = db["destination"]

\* Where a transfer stands after its k-th insert_batch call raised.
C26_AfterFailedInsert ==
    \A t \in Started :
        InsertRaised(t) =>
            LET k == Cardinality(CallsOf(t, "insert_batch")) IN
            /\ Len(inserted[t]) = k - 1
            /\ status[t].records_transferred = Sum(inserted[t])
            /\ frame[t].offset = (k - 1) * config[t].batch_size
            /\ Cardinality(CallsOf(t, "read_page")) = k
            /\ config[t].destination_db \in engines =>
                  Len(db[config[t].destination_db]
                        [config[t].destination_table].rows)
                      = Sum(inserted[t])
            /\ Returned(t) => status[t].status = "failed"

\* C26: when an insert_batch call raises in the k-th iteration of the loop,
\* it is not retried and no further page read or insert is issued; the
\* transfer ends failed with records_transferred the sum of the k-1 batches
\* inserted before, offset and records_transferred are not advanced for the
\* failed batch, and the rows of the earlier batches stay in the destination.
C26_FailedBatchEndsTransfer ==
    [][C26_Step /\ C26_AfterFailedInsert /\ C26_AfterFailedInsert']_vars

\* A transfer ended failed on its second or a later insert_batch call.
C26_Witness ==
    \E t \in Started :
        /\ InsertRaised(t)
        /\ Returned(t)
        /\ status[t].status = "failed"
        /\ Len(inserted[t]) >= 1
        /\ status[t].records_transferred >= 1


\* C27: whatever happens to the source table during a transfer, the page
\* reads and the insert_batch calls it issues are each at most
\* ceil(total_records / batch_size), and the offsets read are 0, batch_size,
\* 2 * batch_size, ... in this order, none of them twice.
C27_BoundedPaging ==
    \A t \in Started :
        LET reads == CallsOf(t, "read_page")
            inserts == CallsOf(t, "insert_batch")
            most == CeilDiv(status[t].total_records, config[t].batch_size)
        IN  /\ Cardinality(reads) <= most
            /\ Cardinality(inserts) <= Cardinality(reads)
            /\ \A i \in reads :
                  calls[t][i].arg =
                      config[t].batch_size
                          * Cardinality({j \in reads : j < i})

\* A transfer has issued every page read its count allows, more than one,
\* over a source table that was written meanwhile.
C27_Witness ==
    \E t \in Started :
        /\ Cardinality(CallsOf(t, "read_page")) >= 2
        /\ Cardinality(CallsOf(t, "read_page")) =
              CeilDiv(status[t].total_records, config[t].batch_size)
        /\ ~SourceUntouched


\* Every call has found the destination table absent and has called
\* create_table_from_schema for it.
AllCreate == \A t \in Procs : t \in Started /\ t \in Inferred

\* C28: when two concurrent transfers to the same absent destination table
\* both find it absent and both call create_table_from_schema, the second
\* creation is a no-op: no transfer fails because of the creation (a transfer
\* that fails does so on an I/O failure), a transfer with no failing call
\* completes with every source row copied, and the one destination table
\* holds the batches of both.
C28_CreationRaceIsHarmless ==
    AllCreate =>
        LET dest == db["destination"]["users_copy"]
            each == [t \in 1..Cardinality(Procs) |-> Sum(inserted[t])]
        IN  /\ Len(dest.rows) = Sum(each)
            /\ \A t \in Procs :
                  /\ frame[t].exc \in {None, Some(IoError)}
                  /\ dest.exists =>
                        dest.cols = InferSchema(
                            db["source"][config[t].source_table].rows[1])
                  /\ Returned(t) /\ frame[t].exc = None =>
                        /\ status[t].status = "completed"
                        /\ status[t].records_transferred =
                              Len(db["source"][config[t].source_table].rows)
                        /\ Sum(inserted[t]) = status[t].records_transferred

\* Both transfers called create_table_from_schema for the absent table and
\* both completed: the table holds the source rows twice.
C28_Witness ==
    /\ AllCreate
    /\ ~db0["destination"]["users_copy"].exists
    /\ \A t \in Procs : Returned(t) /\ status[t].status = "completed"
    /\ Len(db["source"]["users"].rows) >= 2
    /\ Len(db["destination"]["users_copy"].rows)
          = 2 * Len(db["source"]["users"].rows)

====
